---- MODULE Spec2Model ----
(***************************************************************************)
(* Model of src/volatility_analysis.py: a straight-line script that builds *)
(* a one-year daily table, samples a category and a utility score for each *)
(* day, overwrites the rows named in actual_events, summarises, plots and  *)
(* exports the table.                                                      *)
(*                                                                         *)
(* Encoding.  A pandas Timestamp is the number of days since 1970-01-01.   *)
(* A date literal 'YYYY-MM-DD' is the tuple <<YYYY, MM, DD>> of its fields; *)
(* parsing (Timestamp), formatting (strftime) and the calendar arithmetic  *)
(* are computed, not assumed.  The table df is a sequence of rows, each a  *)
(* record of the columns that exist so far.  The NumPy generator is seeded *)
(* but its stream is not computed here: a draw may be any value that has   *)
(* positive probability.  Draws are enumerated for the rows of FreeDates   *)
(* and follow a fixed rotation of the possible values for the other rows.  *)
(***************************************************************************)
EXTENDS Integers, Sequences, FiniteSets

VARIABLES
    pc,         \* the stage the script is about to run
    df,         \* the DataFrame: a sequence of rows
    events,     \* the override list the loop of line 117 iterates over
    i,          \* position of that loop in events (1-based)
    summary,    \* result of groupby/describe (line 127)
    csv,        \* rows written by to_csv (line 159)
    simulated,  \* history: df when the utility stage finished
    applied     \* history: df when the override loop finished

vars == <<pc, df, events, i, summary, csv, simulated, applied>>

\* ---------------------------------------------------------------- bounds

\* Number of entries of FreeDates whose random draws are enumerated.
NumFree == 1

\* Longest override list drawn in SpecOverride.
MaxEvents == 3

\* Rows of the tables drawn in SpecOverride and SpecSampler.
NumRows == 3

\* Rows whose draws are enumerated: an overridden day, a day with no
\* override, the day that occurs twice in actual_events, and two days whose
\* override score lies outside the sampler's range for the category.
FreeDates ==
    << <<2025, 1, 1>>, <<2025, 12, 25>>, <<2025, 6, 1>>,
       <<2025, 3, 11>>, <<2025, 7, 20>>, <<2025, 12, 31>> >>

\* Dates of the rows of the drawn tables.
SmallDates ==
    << <<2025, 1, 1>>, <<2025, 3, 1>>, <<2025, 12, 25>>,
       <<2025, 6, 1>>, <<2025, 12, 31>> >>

\* Dates of the drawn override triples: two days of every drawn table, a
\* string that names no day (2025 is not a leap year), and a day outside
\* the table and outside the year.
DrawnDates == {<<2025, 1, 1>>, <<2025, 3, 1>>, <<2025, 2, 29>>, <<2024, 12, 31>>}

\* (category, score) of the drawn override triples and of the rows of the
\* drawn starting tables.
DrawnOverrides == {<<"Peak", 5>>, <<"Low_Perf", 1>>}
DrawnRows == {<<"Stable", 2>>, <<"Crisis", 0>>}

\* ------------------------------------------------------ calendar arithmetic

IsLeap(y) == (y % 4 = 0 /\ y % 100 # 0) \/ y % 400 = 0

DaysInYear(y) == IF IsLeap(y) THEN 366 ELSE 365

DaysInMonth(y, m) ==
    IF m \in {4, 6, 9, 11} THEN 30
    ELSE IF m = 2 THEN (IF IsLeap(y) THEN 29 ELSE 28)
    ELSE 31

\* Leap years in 1..y-1.
LeapsBefore(y) == ((y - 1) \div 4) - ((y - 1) \div 100) + ((y - 1) \div 400)

DaysBeforeYear(y) == 365 * (y - 1970) + LeapsBefore(y) - LeapsBefore(1970)

RECURSIVE DaysBeforeMonth(_, _)
DaysBeforeMonth(y, m) ==
    IF m = 1 THEN 0 ELSE DaysBeforeMonth(y, m - 1) + DaysInMonth(y, m - 1)

\* Whether 'YYYY-MM-DD' names a day of the calendar (Timestamp would parse it).
IsDate(s) ==
    /\ s[1] >= 1970
    /\ s[2] \in 1..12
    /\ s[3] \in 1..DaysInMonth(s[1], s[2])

\* pd.Timestamp('YYYY-MM-DD'): days since the epoch.
Timestamp(s) == DaysBeforeYear(s[1]) + DaysBeforeMonth(s[1], s[2]) + s[3] - 1

RECURSIVE YearOf(_, _)
\* The year holding day n counted from 1 January of year y, and the day's
\* offset in it.
YearOf(n, y) ==
    IF n < DaysInYear(y) THEN <<y, n>> ELSE YearOf(n - DaysInYear(y), y + 1)

RECURSIVE MonthOf(_, _, _)
MonthOf(y, n, m) ==
    IF n < DaysInMonth(y, m) THEN <<m, n + 1>>
    ELSE MonthOf(y, n - DaysInMonth(y, m), m + 1)

\* Timestamp.strftime('%Y-%m-%d'), as to_csv writes a datetime column.
strftime(t) ==
    LET y0 == 1970 + (t \div 366)   \* never later than the year of t
        yn == YearOf(t - DaysBeforeYear(y0), y0)
        md == MonthOf(yn[1], yn[2], 1)
    IN  <<yn[1], md[1], md[2]>>

\* Fault: the range stops one day before end.
date_range_exclusive(start, end) ==
    [k \in 1..(Timestamp(end) - Timestamp(start)) |-> Timestamp(start) + k - 1]

\* pd.date_range(start, end, freq='D'): every day from start to end inclusive.
date_range(start, end) ==
    [k \in 1..(Timestamp(end) - Timestamp(start) + 1) |-> Timestamp(start) + k - 1]

\* ------------------------------------------------------ program constants

dates == date_range(<<2025, 1, 1>>, <<2025, 12, 31>>)

categories == <<"Stable", "Peak", "Low_Perf", "Crisis">>

\* In percent.
probabilities == <<50, 20, 20, 10>>

actual_events ==
 << << <<2025, 1, 1>>, "Peak", 3 >>,
    << <<2025, 1, 9>>, "Crisis", 1 >>,
    << <<2025, 1, 10>>, "Peak", 3 >>,
    << <<2025, 1, 11>>, "Low_Perf", 1 >>,
    << <<2025, 1, 13>>, "Low_Perf", 1 >>,
    << <<2025, 1, 14>>, "Low_Perf", 1 >>,
    << <<2025, 1, 16>>, "Low_Perf", 1 >>,
    << <<2025, 1, 18>>, "Crisis", 1 >>,
    << <<2025, 1, 19>>, "Crisis", 1 >>,
    << <<2025, 1, 20>>, "Crisis", 1 >>,
    << <<2025, 1, 21>>, "Crisis", 1 >>,
    << <<2025, 1, 22>>, "Low_Perf", 1 >>,
    << <<2025, 1, 27>>, "Peak", 3 >>,
    << <<2025, 1, 28>>, "Peak", 5 >>,
    << <<2025, 1, 30>>, "Crisis", 1 >>,
    << <<2025, 2, 26>>, "Crisis", 1 >>,
    << <<2025, 3, 1>>, "Peak", 5 >>,
    << <<2025, 3, 8>>, "Peak", 5 >>,
    << <<2025, 3, 11>>, "Peak", 1 >>,
    << <<2025, 3, 12>>, "Crisis", 5 >>,
    << <<2025, 3, 19>>, "Crisis", 1 >>,
    << <<2025, 3, 22>>, "Crisis", 5 >>,
    << <<2025, 5, 31>>, "Peak", 5 >>,
    << <<2025, 6, 1>>, "Peak", 5 >>,
    << <<2025, 6, 1>>, "Peak", 5 >>,
    << <<2025, 6, 25>>, "Crisis", 5 >>,
    << <<2025, 7, 1>>, "Crisis", 4 >>,
    << <<2025, 7, 2>>, "Peak", 3 >>,
    << <<2025, 7, 4>>, "Crisis", 5 >>,
    << <<2025, 7, 16>>, "Low_Perf", 2 >>,
    << <<2025, 7, 17>>, "Low_Perf", 2 >>,
    << <<2025, 7, 18>>, "Peak", 3 >>,
    << <<2025, 7, 19>>, "Crisis", 1 >>,
    << <<2025, 7, 20>>, "Low_Perf", 4 >>,
    << <<2025, 7, 21>>, "Crisis", 5 >>,
    << <<2025, 8, 14>>, "Peak", 3 >>,
    << <<2025, 8, 15>>, "Peak", 3 >>,
    << <<2025, 8, 28>>, "Crisis", 5 >>,
    << <<2025, 9, 20>>, "Peak", 3 >>,
    << <<2025, 9, 21>>, "Peak", 3 >>,
    << <<2025, 10, 6>>, "Peak", 5 >>,
    << <<2025, 10, 14>>, "Peak", 5 >>,
    << <<2025, 10, 17>>, "Crisis", 1 >>,
    << <<2025, 10, 24>>, "Peak", 5 >>,
    << <<2025, 11, 19>>, "Crisis", 1 >>,
    << <<2025, 11, 20>>, "Crisis", 5 >>,
    << <<2025, 11, 24>>, "Low_Perf", 1 >>,
    << <<2025, 11, 25>>, "Low_Perf", 1 >>,
    << <<2025, 11, 26>>, "Low_Perf", 2 >>,
    << <<2025, 11, 27>>, "Peak", 5 >>,
    << <<2025, 12, 1>>, "Peak", 4 >> >>

\* What a Python function returns when it falls off its end; as a cell of a
\* numeric column, the missing value.
None == -1

\* ------------------------------------------------------------ random draws

RECURSIVE Support(_, _)
\* The values of a that np.random.choice(a, p=p) can return.
Support(a, p) ==
    IF a = <<>> THEN <<>>
    ELSE (IF Head(p) > 0 THEN <<Head(a)>> ELSE <<>>) \o Support(Tail(a), Tail(p))

\* np.random.randint(low, high): the integers low .. high-1.
randint(low, high) == [k \in 1..(high - low) |-> low + k - 1]

Range(s) == {s[k] : k \in DOMAIN s}

\* Rows of table d whose draws are enumerated.
FreeRows(d) ==
    LET stamps == {Timestamp(FreeDates[k]) : k \in 1..NumFree}
    IN  {r \in DOMAIN d : d[r].Date \in stamps}

\* The draw taken for a row that is not enumerated: the possible values in
\* rotation, n stepping through them.
Rotate(values, n) == values[(n % Len(values)) + 1]

\* ------------------------------------------------------------ the stages

\* Lines 14-15.
Calendar ==
    /\ pc = "calendar"
    /\ df' = [r \in DOMAIN dates |-> [Date |-> dates[r]]]
    /\ pc' = "category"
    /\ UNCHANGED <<events, i, summary, csv, simulated, applied>>

\* Line 29: one call draws a category for every row.
CategoryStage ==
    /\ pc = "category"
    /\ LET can  == Support(categories, probabilities)
           free == FreeRows(df)
       IN  \E draw \in [free -> Range(can)] :
              df' = [r \in DOMAIN df |->
                       [Date |-> df[r].Date,
                        Category |-> IF r \in free THEN draw[r]
                                     ELSE Rotate(can, r)]]
    /\ pc' = "utility"
    /\ UNCHANGED <<events, i, summary, csv, simulated, applied>>

\* Fault: the upper limit of randint taken as inclusive.
calculate_utility_inclusive(category) ==
    IF category = "Stable" THEN randint(1, 5)
    ELSE IF category = "Peak" THEN randint(3, 7)
    ELSE IF category = "Low_Perf" THEN randint(0, 4)
    ELSE IF category = "Crisis" THEN Support(<<0, 1, 4, 5>>, <<30, 20, 20, 30>>)
    ELSE <<None>>

\* Fault: a Crisis day scored over the whole scale.
calculate_utility_crisis_uniform(category) ==
    IF category = "Stable" THEN randint(1, 4)
    ELSE IF category = "Peak" THEN randint(3, 6)
    ELSE IF category = "Low_Perf" THEN randint(0, 3)
    ELSE IF category = "Crisis" THEN randint(0, 6)
    ELSE <<None>>

\* Lines 32-51: the values calculate_utility can return for a category.
calculate_utility(category) ==
    IF category = "Stable" THEN randint(1, 4)
    ELSE IF category = "Peak" THEN randint(3, 6)
    ELSE IF category = "Low_Perf" THEN randint(0, 3)
    ELSE IF category = "Crisis" THEN Support(<<0, 1, 4, 5>>, <<30, 20, 20, 30>>)
    ELSE <<None>>

\* Line 54: df.apply calls calculate_utility once per row and the results
\* become the Utility_Score column.
UtilityStage ==
    /\ pc = "utility"
    /\ LET free == FreeRows(df) IN
       \E draw \in [free -> UNION {Range(calculate_utility(df[r].Category)) : r \in free}] :
          /\ \A r \in free :
                draw[r] \in Range(calculate_utility(df[r].Category))
          /\ df' = [r \in DOMAIN df |->
                      [Date |-> df[r].Date,
                       Category |-> df[r].Category,
                       Utility_Score |->
                          IF r \in free THEN draw[r]
                          ELSE Rotate(calculate_utility(df[r].Category), r \div 4)]]
    /\ simulated' = df'
    /\ i' = 1
    /\ pc' = "override"
    /\ UNCHANGED <<events, summary, csv, applied>>

\* Fault: a lenient parser: a day number past the end of its month runs on
\* into the next month instead of being rejected.
Mask_Lenient(d, date) ==
    LET stamp == Timestamp(date)
    IN  [r \in DOMAIN d |-> d[r].Date = stamp]

\* Fault: <= written for ==.
Mask_UpTo(d, date) ==
    LET valid == IsDate(date)
        stamp == Timestamp(date)
    IN  [r \in DOMAIN d |-> valid /\ d[r].Date <= stamp]

\* Line 118: df['Date'] == date.  The string is parsed to a Timestamp; a
\* string that names no day compares unequal to every row.
Mask(d, date) ==
    LET valid == IsDate(date)
        stamp == Timestamp(date)
    IN  [r \in DOMAIN d |-> valid /\ d[r].Date = stamp]

\* Fault: += written for = on the score column.
LocAssign_Accumulate(d, mask, column, value) ==
    [r \in DOMAIN d |->
        IF mask[r]
        THEN [d[r] EXCEPT ![column] =
                 IF column = "Utility_Score" THEN @ + value ELSE value]
        ELSE d[r]]

\* Lines 119, 120: df.loc[mask, column] = value.
LocAssign(d, mask, column, value) ==
    [r \in DOMAIN d |-> IF mask[r] THEN [d[r] EXCEPT ![column] = value] ELSE d[r]]

\* Fault: line 120 missing: the score is not overwritten.
ApplyTriple_CategoryOnly(d, triple) ==
    LocAssign(d, Mask(d, triple[1]), "Category", triple[2])

\* Lines 118-120: the body of the override loop for one triple.
ApplyTriple(d, triple) ==
    LET mask == Mask(d, triple[1])
        d1   == LocAssign(d, mask, "Category", triple[2])
    IN  LocAssign(d1, mask, "Utility_Score", triple[3])

\* Fault: the list walked from its end.
OverrideStep_Reversed ==
    /\ pc = "override"
    /\ i <= Len(events)
    /\ df' = ApplyTriple(df, events[Len(events) + 1 - i])
    /\ i' = i + 1
    /\ UNCHANGED <<pc, events, summary, csv, simulated, applied>>

\* Line 117: one iteration of the loop.
OverrideStep ==
    /\ pc = "override"
    /\ i <= Len(events)
    /\ df' = ApplyTriple(df, events[i])
    /\ i' = i + 1
    /\ UNCHANGED <<pc, events, summary, csv, simulated, applied>>

\* Line 117: the list is exhausted and the loop ends.
OverrideEnd ==
    /\ pc = "override"
    /\ i > Len(events)
    /\ applied' = df
    /\ pc' = "summarize"
    /\ UNCHANGED <<df, events, i, summary, csv, simulated>>

RECURSIVE SumScores(_, _, _)
\* Sum of Utility_Score over the rows of d whose Category is c, the scores
\* taken one distinct value at a time.
SumScores(d, c, values) ==
    IF values = {} THEN 0
    ELSE LET v == CHOOSE x \in values : TRUE
             n == Cardinality({r \in DOMAIN d :
                                 d[r].Category = c /\ d[r].Utility_Score = v})
         IN  v * n + SumScores(d, c, values \ {v})

\* Lines 127-128: groupby('Category')['Utility_Score'].describe(); a group
\* exists for each category that occurs.  Of the statistics, count, the sum
\* behind the mean, and the extremes are kept.
describe(d) ==
    LET present == {d[r].Category : r \in DOMAIN d}
        group(c) == {r \in DOMAIN d : d[r].Category = c}
    IN  [c \in present |->
           [count |-> Cardinality(group(c)),
            sum   |-> SumScores(d, c, {d[r].Utility_Score : r \in group(c)}),
            min   |-> LET vs == {d[r].Utility_Score : r \in group(c)}
                      IN  CHOOSE v \in vs : \A w \in vs : v <= w,
            max   |-> LET vs == {d[r].Utility_Score : r \in group(c)}
                      IN  CHOOSE v \in vs : \A w \in vs : v >= w]]

Summarize ==
    /\ pc = "summarize"
    /\ summary' = describe(df)
    /\ pc' = "plot"
    /\ UNCHANGED <<df, events, i, csv, simulated, applied>>

\* Lines 131-156: the box plot reads df and changes nothing.
Plot ==
    /\ pc = "plot"
    /\ pc' = "export"
    /\ UNCHANGED <<df, events, i, summary, csv, simulated, applied>>

\* Fault: index=False left out: every line starts with the row index.
to_csv_indexed(d) ==
    <<<<"", "Date", "Category", "Utility_Score">>>> \o
    [r \in DOMAIN d |->
        <<r - 1, strftime(d[r].Date), d[r].Category, d[r].Utility_Score>>]

\* Line 159: df.to_csv(path, index=False): a header, then one line per row.
to_csv(d) ==
    <<<<"Date", "Category", "Utility_Score">>>> \o
    [r \in DOMAIN d |-> <<strftime(d[r].Date), d[r].Category, d[r].Utility_Score>>]

Export ==
    /\ pc = "export"
    /\ csv' = to_csv(df)
    /\ pc' = "done"
    /\ UNCHANGED <<df, events, i, summary, simulated, applied>>

Init ==
    /\ pc = "calendar"
    /\ df = <<>>
    /\ events = actual_events
    /\ i = 1
    /\ summary = <<>>
    /\ csv = <<>>
    /\ simulated = <<>>
    /\ applied = <<>>

Next ==
    \/ Calendar
    \/ CategoryStage
    \/ UtilityStage
    \/ OverrideStep
    \/ OverrideEnd
    \/ Summarize
    \/ Plot
    \/ Export

Spec == Init /\ [][Next]_vars

\* ------------------------------------------- the override loop on any input

\* The override list is applied to a drawn table, and then applied again to
\* the table that results.

Reapply ==
    /\ pc = "summarize"
    /\ pc' = "reapply"
    /\ i' = 1
    /\ UNCHANGED <<df, events, summary, csv, simulated, applied>>

\* Lines 117-120, for the second application.
ReapplyStep ==
    /\ pc = "reapply"
    /\ i <= Len(events)
    /\ df' = ApplyTriple(df, events[i])
    /\ i' = i + 1
    /\ UNCHANGED <<pc, events, summary, csv, simulated, applied>>

ReapplyEnd ==
    /\ pc = "reapply"
    /\ i > Len(events)
    /\ pc' = "reapplied"
    /\ UNCHANGED <<df, events, i, summary, csv, simulated, applied>>

SeqsUpTo(S, n) == UNION {[1..k -> S] : k \in 0..n}

DrawnTriples == {<<d, o[1], o[2]>> : d \in DrawnDates, o \in DrawnOverrides}

InitOverride ==
    /\ pc = "override"
    /\ \E cells \in [1..NumRows -> DrawnRows] :
          df = [r \in 1..NumRows |->
                  [Date |-> Timestamp(SmallDates[r]),
                   Category |-> cells[r][1],
                   Utility_Score |-> cells[r][2]]]
    /\ events \in SeqsUpTo(DrawnTriples, MaxEvents)
    /\ i = 1
    /\ summary = <<>>
    /\ csv = <<>>
    /\ simulated = df
    /\ applied = <<>>

NextOverride ==
    \/ OverrideStep
    \/ OverrideEnd
    \/ Reapply
    \/ ReapplyStep
    \/ ReapplyEnd

SpecOverride == InitOverride /\ [][NextOverride]_vars

\* --------------------------------------- the utility sampler on any category

\* calculate_utility is applied to a table whose Category column holds any of
\* the four labels or a label that is none of them.
InitSampler ==
    /\ pc = "utility"
    /\ \E cats \in [1..NumRows -> Range(categories) \cup {"Unknown"}] :
          df = [r \in 1..NumRows |->
                  [Date |-> Timestamp(SmallDates[r]), Category |-> cats[r]]]
    /\ events = <<>>
    /\ i = 1
    /\ summary = <<>>
    /\ csv = <<>>
    /\ simulated = <<>>
    /\ applied = <<>>

NextSampler == UtilityStage

SpecSampler == InitSampler /\ [][NextSampler]_vars

\* ================================================================ properties

AfterUtility == {"override", "summarize", "plot", "export", "done"}
AfterOverride == {"summarize", "plot", "export", "done"}

\* Timestamps of the dates named by the override list.
EventStamps == {Timestamp(events[k][1]) : k \in {j \in DOMAIN events : IsDate(events[j][1])}}

\* C1: once the override loop has run through actual_events, every triple of
\* the list whose date is a day of the calendar finds a record at that date,
\* and each record at that date carries the triple's category and score.
C1_OverridesApplied ==
    pc \in AfterOverride =>
        \A k \in DOMAIN events :
            LET t == events[k]
                stamp == Timestamp(t[1])
                rows == {r \in DOMAIN df : df[r].Date = stamp}
            IN  (IsDate(t[1]) /\ t[1][1] = 2025) =>
                    /\ rows # {}
                    /\ \A r \in rows :
                          /\ strftime(df[r].Date) = t[1]
                          /\ df[r].Category = t[2]
                          /\ df[r].Utility_Score = t[3]

\* The record of 2025-01-01 was simulated as something other than
\* ('Peak', 3) in both columns and ends as ('Peak', 3).
C1_Witness ==
    /\ pc = "done"
    /\ simulated[1].Category # "Peak"
    /\ simulated[1].Utility_Score # 3
    /\ strftime(df[1].Date) = <<2025, 1, 1>>
    /\ df[1].Category = "Peak"
    /\ df[1].Utility_Score = 3

\* C2: from the end of the utility stage on, after every override step and
\* at export, every record has a score in 0..5 and one of the four
\* categories.
C2_ScoreAndCategoryInRange ==
    pc \in AfterUtility =>
        \A r \in DOMAIN df :
            /\ df[r].Utility_Score \in 0..5
            /\ df[r].Category \in {"Stable", "Peak", "Low_Perf", "Crisis"}

\* Part of the override list has been applied, and the table holds both
\* ends of the scale.
C2_Witness ==
    /\ pc = "override"
    /\ i = 26
    /\ \E r \in DOMAIN df : df[r].Utility_Score = 0
    /\ \E r \in DOMAIN df : df[r].Utility_Score = 5
    /\ df # simulated

\* C3: from calendar generation on, the table holds 365 records, the first
\* dated 2025-01-01, each next one dated the following day, the last dated
\* 2025-12-31.
C3_OneRecordPerDay ==
    pc # "calendar" =>
        /\ Len(df) = 365
        /\ strftime(df[1].Date) = <<2025, 1, 1>>
        /\ \A r \in 1..(Len(df) - 1) : df[r + 1].Date = df[r].Date + 1
        /\ strftime(df[Len(df)].Date) = <<2025, 12, 31>>

\* The run is over, overrides have changed records, and the calendar is as
\* generated.
C3_Witness ==
    /\ pc = "done"
    /\ df # simulated
    /\ Len(df) = 365
    /\ strftime(df[59].Date) = <<2025, 2, 28>>
    /\ strftime(df[60].Date) = <<2025, 3, 1>>

\* The scores each category can be given by the sampler.
ScoresOf(category) ==
    IF category = "Stable" THEN {1, 2, 3}
    ELSE IF category = "Peak" THEN {3, 4, 5}
    ELSE IF category = "Low_Perf" THEN {0, 1, 2}
    ELSE IF category = "Crisis" THEN {0, 1, 4, 5}
    ELSE {}

\* C4: the table the utility stage leaves has, in every record, a score from
\* the set of the record's category; and after the override loop every
\* record whose date is in no override triple still has a score from the set
\* of its category.
C4_ScoreFitsCategory ==
    /\ (pc = "override" /\ i = 1) =>
          \A r \in DOMAIN df : df[r].Utility_Score \in ScoresOf(df[r].Category)
    /\ pc \in AfterOverride =>
          LET stamps == EventStamps
          IN  \A r \in DOMAIN df :
                 df[r].Date \notin stamps =>
                    df[r].Utility_Score \in ScoresOf(df[r].Category)

\* The run is over; records with no override show every category, Crisis at
\* both ends of the scale, and 2025-12-25 is one of them.
C4_Witness ==
    /\ pc = "done"
    /\ LET kept == {r \in DOMAIN df : df[r].Date \notin EventStamps}
       IN  /\ \A c \in Range(categories) : \E r \in kept : df[r].Category = c
           /\ \E r \in kept : df[r].Category = "Crisis" /\ df[r].Utility_Score = 0
           /\ \E r \in kept : df[r].Category = "Crisis" /\ df[r].Utility_Score = 5
           /\ \E r \in kept : strftime(df[r].Date) = <<2025, 12, 25>>

\* C5: a category outside the four labels does not get through the utility
\* sampler: the stage does not complete with such a record in the table, and
\* no record is left with the missing value as its score.
C5_UnknownCategoryFailsFast ==
    pc = "override" =>
        \A r \in DOMAIN df :
            /\ df[r].Category \in {"Stable", "Peak", "Low_Perf", "Crisis"}
            /\ df[r].Utility_Score # None

\* Whether the date literal is the date of some record of the table.
InTable(date) == \E r \in DOMAIN df : strftime(df[r].Date) = date

\* C6: an iteration of the override loop whose triple's date is the date of
\* no record leaves the table as it is and moves on to the next triple.
C6_MissingDateIsNoOp ==
    [][(pc \in {"override", "reapply"} /\ i <= Len(events) /\ ~InTable(events[i][1]))
          => (df' = df /\ i' = i + 1 /\ pc' = pc)]_vars

\* The first triple named a date that is in no record, the table is as it
\* started, and the loop stands at the second triple, which names a date
\* that is in the table.
C6_Witness ==
    /\ pc = "override"
    /\ i = 2
    /\ Len(events) >= 2
    /\ ~InTable(events[1][1])
    /\ InTable(events[2][1])
    /\ df = simulated

\* Positions among the first n triples that name the date of record r.
Naming(r, n) ==
    LET shown == strftime(df[r].Date)
    IN  {k \in 1..n : events[k][1] = shown}

Last(ks) == CHOOSE k \in ks : \A j \in ks : j <= k

\* C7: when the loop has applied the first n triples of the list, every
\* record whose date is named among them carries the category and score of
\* the last of those triples in list order; so at the end of the list a date
\* that occurs more than once carries its last triple.
C7_LastTripleWins ==
    pc \in {"override", "summarize", "reapply", "reapplied"} =>
        \A r \in DOMAIN df :
            LET ks == Naming(r, i - 1)
                t  == events[Last(ks)]
            IN  ks # {} => (df[r].Category = t[2] /\ df[r].Utility_Score = t[3])

\* The list has been applied; a record is named by two triples that differ
\* in category and in score, and it carries the later one.
C7_Witness ==
    /\ pc = "summarize"
    /\ \E r \in DOMAIN df :
          \E j, k \in Naming(r, Len(events)) :
             /\ j < k
             /\ k = Last(Naming(r, Len(events)))
             /\ events[j][2] # events[k][2]
             /\ events[j][3] # events[k][3]
             /\ df[r].Category = events[k][2]
             /\ df[r].Utility_Score = events[k][3]

\* C8: the table after the override list has been applied a second time is
\* the table that its first application left.
C8_OverrideIdempotent ==
    pc = "reapplied" => df = applied

\* The list has been applied twice; it names one record's date in two
\* triples that differ, and its first application changed the table.
C8_Witness ==
    /\ pc = "reapplied"
    /\ applied # simulated
    /\ \E r \in DOMAIN df :
          \E j, k \in Naming(r, Len(events)) :
             j < k /\ events[j][2] # events[k][2]

\* Whether the triple names the date of record r of table d.
Names(triple, d, r) == IsDate(triple[1]) /\ d[r].Date = Timestamp(triple[1])

\* C9: after the override loop every record whose date is in no triple is as
\* the simulation left it; and each iteration of the loop keeps the number
\* of records and every Date, and leaves every record whose date is not the
\* date of its triple as it was.
C9_OverrideFrame ==
    /\ [](pc \in AfterOverride =>
            LET stamps == EventStamps
            IN  \A r \in DOMAIN df :
                   df[r].Date \notin stamps => df[r] = simulated[r])
    /\ [][(pc = "override" /\ i <= Len(events)) =>
            /\ DOMAIN df' = DOMAIN df
            /\ \A r \in DOMAIN df :
                  /\ df'[r].Date = df[r].Date
                  /\ ~Names(events[i], df, r) => (df'[r] = df[r])]_vars

\* The run is over, overrides have changed records, and the record of
\* 2025-12-25, a date in no triple, is as simulated.
C9_Witness ==
    /\ pc = "done"
    /\ df # simulated
    /\ \E r \in DOMAIN df :
          /\ strftime(df[r].Date) = <<2025, 12, 25>>
          /\ df[r].Date \notin EventStamps
          /\ df[r] = simulated[r]

Stages ==
    <<"calendar", "category", "utility", "override",
      "summarize", "plot", "export", "done">>

\* C10: the stage only ever moves to the next stage of the fixed order; the
\* table does not change from the summarizer on; and the exported lines
\* after the header are, row for row, the date, category and score of the
\* table as the override loop left it.
C10_ForwardAndExport ==
    /\ [][pc' # pc =>
            (\E n \in 1..(Len(Stages) - 1) : pc = Stages[n] /\ pc' = Stages[n + 1])]_vars
    /\ [][(pc \in AfterOverride) => (df' = df)]_vars
    /\ [](pc = "done" =>
            /\ Len(csv) = Len(applied) + 1
            /\ \A r \in DOMAIN applied :
                  /\ Len(csv[r + 1]) = 3
                  /\ IsDate(csv[r + 1][1])
                  /\ Timestamp(csv[r + 1][1]) = applied[r].Date
                  /\ csv[r + 1][2] = applied[r].Category
                  /\ csv[r + 1][3] = applied[r].Utility_Score)

\* The file is written: a header and 365 lines, the first the overridden
\* 2025-01-01 and the last 2025-12-31.
C10_Witness ==
    /\ pc = "done"
    /\ applied # simulated
    /\ Len(csv) = 366
    /\ csv[1] = <<"Date", "Category", "Utility_Score">>
    /\ csv[2] = << <<2025, 1, 1>>, "Peak", 3 >>
    /\ csv[366][1] = <<2025, 12, 31>>

====
